---- MODULE Spec2Model ----
(***************************************************************************)
(* SonicFI ai-engine: the SocialFi AI engine's command line, its analysis  *)
(* run (NLP stage under a deadline, research stage, combination) and the   *)
(* source adapters and text scorer of the NLP processor.                   *)
(*                                                                         *)
(* Floats are fixed-point integers in thousandths: 1.0 is 1000, 0.3 is 300.*)
(* A Python dict is a record (a function on its keys); dict.get is Get.    *)
(* Time is counted in seconds.                                             *)
(***************************************************************************)
EXTENDS Integers, Sequences, FiniteSets, TLC

VARIABLES
    config,              \* SocialFiAIEngine.config: which credentials are set
    command,             \* sys.argv[1]: "analyze", or "default" for no argument
    pc,                  \* position of the process
    twitter_client,      \* AdvancedNLPProcessor.twitter_client is set (not None)
    reddit_client,       \* AdvancedNLPProcessor.reddit_client is set (not None)
    idx,                 \* the token the current per-token loop is at
    elapsed,             \* seconds since run_comprehensive_analysis was called
    social_sentiments,   \* _analyze_social_sentiment's dict, token -> combined
    news_data,           \* _analyze_news_sentiment's fetched article list
    news_sentiment,      \* _analyze_news_sentiment's result
    technical_analysis,  \* _analyze_technical_indicators' dict
    reddit_seen,         \* what the Reddit provider did, per token called
    twitter_seen,        \* what the Twitter provider did, per token called
    price_seen,          \* what the price provider did, per token called
    nlp_result,          \* run_comprehensive_analysis: nlp_result
    research_data,       \* generate_daily_research: the fetched news list
    research_result,     \* run_comprehensive_analysis: research_result
    result,              \* what run_comprehensive_analysis returned
    exit_code,           \* the process's exit status, -1 while it runs
    exit_path,           \* how main() ended: "running", "normal", "failed", "fatal", "usage", "interrupted"
    nlp_processor,       \* engine.nlp_processor has been constructed
    research_engine,     \* engine.research_engine has been constructed
    synth_seen,          \* what the synthesizer answered in this run, None before
    monitoring,          \* run_continuous_monitoring: how the previous cycle ended
                         \* and how long the loop slept before the current one
    fn_call,             \* a helper called on its own: its name and arguments
    fn_return            \* what that call returned, None before it returns

vars == <<config, command, pc, twitter_client, reddit_client, idx, elapsed,
          social_sentiments, news_data, news_sentiment, technical_analysis,
          reddit_seen, twitter_seen, price_seen, nlp_result, research_data,
          research_result, result, exit_code, exit_path, nlp_processor,
          research_engine, synth_seen, monitoring,
          fn_call, fn_return>>

-----------------------------------------------------------------------------
(* Bounds of the model *)

NumTokens == 2          \* tokens on the command line
MaxItems == 1           \* items (tweets, posts of a subreddit) one call returns
SlowCall == 40          \* seconds a slow provider call takes

-----------------------------------------------------------------------------
(* Helpers *)

Unit == 10 * 100        \* 1.0 in thousandths

Tokens == 1 .. NumTokens

None == <<>>            \* an unset dict / an empty dict

Get(d, k, default) == IF k \in DOMAIN d THEN d[k] ELSE default

Min(a, b) == IF a <= b THEN a ELSE b

Max(a, b) == IF a >= b THEN a ELSE b

RECURSIVE SumSeq(_)
SumSeq(s) == IF s = <<>> THEN 0 ELSE Head(s) + SumSeq(Tail(s))

\* np.mean(xs) if xs else 0
MeanOrZero(s) == IF s = <<>> THEN 0 ELSE SumSeq(s) \div Len(s)

\* a * b of two fixed-point numbers
Mul(a, b) == (a * b) \div Unit

SeqsUpTo(S, n) == UNION {[1 .. k -> S] : k \in 0 .. n}

-----------------------------------------------------------------------------
(* Text Signal Scorer.  A text is what the scorer reads off it: the VADER  *)
(* compound and TextBlob polarity (both in [-1,1]), the number of bullish   *)
(* and bearish keywords found in it, its word count, and whether an         *)
(* estimator raises on it.                                                  *)

Text(v, b, bull, bear, w, r) ==
    [vader |-> v, blob |-> b, bullish |-> bull, bearish |-> bear,
     words |-> w, raises |-> r]

EmptyText == Text(0, 0, 0, 0, 0, FALSE)
MoonText == Text(0, 0, 1, 0, 1, FALSE)                \* "moon"
CrashText == Text(-600, -300, 0, 2, 8, FALSE)         \* "... crash ... weak ..."
CalmText == Text(200, 100, 0, 0, 12, FALSE)
BrokenText == Text(500, 500, 1, 0, 3, TRUE)

TextSamples == {EmptyText, MoonText, CrashText, CalmText, BrokenText}

_calculate_keyword_sentiment(text) ==
    IF text.words = 0 THEN 0
    ELSE ((text.bullish - text.bearish) * 10 * Unit) \div text.words

_analyze_text_sentiment(text) ==
    IF text.words = 0 THEN 0
    ELSE IF text.raises THEN 0
    ELSE (text.vader * 4 + text.blob * 3
          + _calculate_keyword_sentiment(text) * 3) \div 10

-----------------------------------------------------------------------------
(* Source adapter: Twitter.  A call's outcome is what the provider does:    *)
(* rate_check is the rate-limit status call ("exhausted": remaining <= 0,   *)
(* "ok", or "fails"), search is the paginated search ("ok",                 *)
(* "too_many_requests", "error"), tweets the tweets it yields, each with    *)
(* its text and its engagement (-1: the tweet has no public_metrics).       *)

TWITTER_DISABLED == [sentiment |-> 0, volume |-> 0, confidence |-> 0]

TwitterEngagement(tweet) == IF tweet.engagement < 0 THEN 1 ELSE tweet.engagement

\* 1 + weight, the factor on the tweet's sentiment
TwitterMultiplier(tweet) ==
    Unit + Min((TwitterEngagement(tweet) * Unit) \div 100, 10 * Unit)

TwitterWeighted(tweet) ==
    Mul(_analyze_text_sentiment(tweet.text), TwitterMultiplier(tweet))

TwitterRateLimitedConfidence == 100

\* A provider error reported with moderate instead of low confidence.
TwitterErrorConfidenceRaised == 5 * 100

TwitterErrorConfidence == 100

_analyze_twitter_sentiment(client, outcome) ==
    IF ~client THEN TWITTER_DISABLED
    ELSE IF outcome.rate_check = "exhausted"
    THEN [sentiment |-> 0, volume |-> 0, confidence |-> 0,
          status |-> "rate_limited"]
    ELSE IF outcome.search = "too_many_requests"
    THEN [sentiment |-> 100, volume |-> 100, tweet_count |-> 0,
          confidence |-> TwitterRateLimitedConfidence,
          status |-> "rate_limited"]
    ELSE IF outcome.search = "error"
    THEN [sentiment |-> 0, volume |-> 50, tweet_count |-> 0,
          confidence |-> TwitterErrorConfidence, status |-> "error"]
    ELSE IF outcome.tweets = <<>>
    THEN [sentiment |-> 0, volume |-> 0, tweet_count |-> 0,
          confidence |-> 0, status |-> "no_data"]
    ELSE [sentiment |->
              MeanOrZero([i \in 1 .. Len(outcome.tweets) |->
                              TwitterWeighted(outcome.tweets[i])]),
          volume |->
              SumSeq([i \in 1 .. Len(outcome.tweets) |->
                          TwitterEngagement(outcome.tweets[i])]),
          tweet_count |-> Len(outcome.tweets),
          confidence |-> Min((Len(outcome.tweets) * Unit) \div 20, Unit),
          status |-> "success"]

-----------------------------------------------------------------------------
(* Source adapter: Reddit.  A call's outcome is, per searched subreddit,    *)
(* the posts the search yields (at most SEARCH_LIMIT) and whether the       *)
(* search then fails.  A post has its text (title and selftext), its score *)
(* and whether reading it raises.                                           *)

NUM_SUBREDDITS == 5

SEARCH_LIMIT == 5

TOTAL_POST_LIMIT == 20

REDDIT_DISABLED == [sentiment |-> 0, volume |-> 0, confidence |-> 0]

\* async for post in subreddit.search(...): append, break once 20 are held
RECURSIVE CollectPosts(_, _)
CollectPosts(all_posts, feed) ==
    IF feed = <<>> THEN all_posts
    ELSE LET posts == Head(feed).posts
             n == IF Len(all_posts) >= TOTAL_POST_LIMIT
                  THEN Min(1, Len(posts))
                  ELSE Min(Len(posts), TOTAL_POST_LIMIT - Len(all_posts))
         IN  CollectPosts(all_posts \o SubSeq(posts, 1, n), Tail(feed))

\* weight, the factor on the post's sentiment
RedditMultiplier(post) == Max((post.score * Unit) \div 10, Unit)

RedditWeighted(post) ==
    Mul(_analyze_text_sentiment(post.text), RedditMultiplier(post))

_analyze_reddit_sentiment(client, feed) ==
    IF ~client THEN REDDIT_DISABLED
    ELSE LET all_posts == CollectPosts(<<>>, feed)
             read == SelectSeq(all_posts, LAMBDA p : ~p.broken)
         IN  [sentiment |->
                  MeanOrZero([i \in 1 .. Len(read) |-> RedditWeighted(read[i])]),
              volume |-> SumSeq([i \in 1 .. Len(read) |-> read[i].score]),
              post_count |-> Len(all_posts),
              confidence |->
                  Min((Len(all_posts) * Unit) \div TOTAL_POST_LIMIT, Unit)]

-----------------------------------------------------------------------------
(* _analyze_social_sentiment, one token: both adapters, then the combined   *)
(* entry.  The handlers around each adapter call and around the token are   *)
(* the branches on `raised`; neither adapter raises, so they take the       *)
(* adapter's value.                                                         *)

SOCIAL_SOURCE_DEFAULT == [sentiment |-> 0, volume |-> 0, confidence |-> 0]

CombineSocial(twitter_sentiment, reddit_sentiment) ==
    [twitter |-> twitter_sentiment,
     reddit |-> reddit_sentiment,
     overall |-> (Get(twitter_sentiment, "sentiment", 0)
                  + Get(reddit_sentiment, "sentiment", 0)) \div 2,
     volume |-> Get(twitter_sentiment, "volume", 0)
                + Get(reddit_sentiment, "volume", 0)]

-----------------------------------------------------------------------------
(* News.  An article of the fetched list is what NewsAPI returned for one   *)
(* token's query: a dict with the tokens its title or description mention  *)
(* and its text, or an entry that is no dict (malformed).                   *)

Article(q, m, t) == [query |-> q, malformed |-> FALSE, mentions |-> m, text |-> t]

MalformedArticle(q) == [query |-> q, malformed |-> TRUE, mentions |-> {}, text |-> EmptyText]

NEWS_PER_TOKEN == 10

NEWS_ANALYZED == 10

NEWS_DEFAULT == [sentiment |-> 0, confidence |-> 0, article_count |-> 0]

\* the loop body of _analyze_news_sentiment for one token over dict articles
NewsEntry(token, articles) ==
    LET token_news == SelectSeq(articles, LAMBDA a : token \in a.mentions)
        used == SubSeq(token_news, 1, Min(Len(token_news), NEWS_ANALYZED))
        sentiments == [i \in 1 .. Len(used) |-> _analyze_text_sentiment(used[i].text)]
    IN  IF token_news = <<>> THEN NEWS_DEFAULT
        ELSE [sentiment |-> MeanOrZero(sentiments),
              confidence |-> Min((Len(sentiments) * Unit) \div 10, Unit),
              article_count |-> Len(token_news)]

\* article.get on an entry that is no dict raises in the first token's filter;
\* the one handler around the loop then answers for every token
NewsFilterRaises(articles) == \E i \in 1 .. Len(articles) : articles[i].malformed

_analyze_news_sentiment(articles) ==
    IF NewsFilterRaises(articles)
    THEN [t \in Tokens |-> NEWS_DEFAULT]
    ELSE [t \in Tokens |-> NewsEntry(t, articles)]

-----------------------------------------------------------------------------
(* Technical indicators, one token.  The price provider raises, returns an *)
(* empty history, or returns a history: its closes and its last volume.     *)

PriceOutcome(k, s, v) ==
    [kind |-> k, prices |-> s,
     close |-> IF s = <<>> THEN 0 ELSE s[Len(s)] * Unit, volume |-> v]

_get_default_technical_data ==
    [rsi |-> 50 * Unit,
     macd |-> [macd |-> 0, signal |-> 0, histogram |-> 0],
     bollinger_bands |-> [upper |-> 0, middle |-> 0, lower |-> 0, position |-> 500],
     current_price |-> 0,
     volume |-> 0]

\* A price series is the sequence of its closes, in whole units of price; the
\* indicators are in thousandths.  The series tried have one bend: they move
\* by a per step up to step c and by b per step after it.
MaxLen == 27

BASE_PRICE == 100

Slopes == {-1, 0, 1}

BentSeries(n, a, b, c) ==
    [i \in 1 .. n |-> BASE_PRICE + a * Min(i, c) + b * Max(i - c, 0)]

SeriesSamples ==
    {BentSeries(n, a, b, c) : n \in 0 .. MaxLen, a \in Slopes, b \in Slopes,
                              c \in 0 .. MaxLen}

\* prices.diff() over the last `period` steps
LastDeltas(prices, period) ==
    [i \in 1 .. period |->
        prices[Len(prices) - period + i] - prices[Len(prices) - period + i - 1]]

RSI_PERIOD == 14

\* float('nan'): a value no computation of the model yields as a number
NaN == -(2 ^ 30)

\* A guard that hands the value on without looking at it.
NanToDefault_unguarded(value, default) == value

\* float(result) if not pd.isna(result) else default
NanToDefault(value, default) == IF value = NaN THEN default ELSE value

\* rsi.iloc[-1]: gain / loss is inf for a positive gain over a zero loss, which
\* gives 100, and NaN for 0 / 0, which gives NaN
RsiLast(prices) ==
    LET delta == LastDeltas(prices, RSI_PERIOD)
        gain == SumSeq([i \in 1 .. RSI_PERIOD |-> Max(delta[i], 0)])
        loss == SumSeq([i \in 1 .. RSI_PERIOD |-> Max(-delta[i], 0)])
    IN  IF loss = 0 THEN (IF gain = 0 THEN NaN ELSE 100 * Unit)
        ELSE 100 * Unit - (100 * Unit * loss) \div (gain + loss)

_calculate_rsi(prices) ==
    IF Len(prices) < RSI_PERIOD + 1 THEN 50 * Unit
    ELSE NanToDefault(RsiLast(prices), 50 * Unit)

\* A MACD that is computed from 20 points on.
MACD_MIN_POINTS_lowered == 2 * 10

MACD_MIN_POINTS == 26

EMA_FAST == 12

EMA_SLOW == 26

EMA_SIGNAL == 9

MACD_DEFAULT == [macd |-> 0, signal |-> 0, histogram |-> 0]

\* ewm(span).mean() at point k is the mean of the points up to k with weights
\* (1 - alpha)^i, alpha = 2 / (span + 1): its numerator and its denominator,
\* each in 1/scale
RECURSIVE EwmNum(_, _, _, _)
EwmNum(xs, span, scale, k) ==
    IF k = 0 THEN 0
    ELSE xs[k] * scale + (EwmNum(xs, span, scale, k - 1) * (span - 1)) \div (span + 1)

RECURSIVE EwmDen(_, _, _)
EwmDen(span, scale, k) ==
    IF k = 0 THEN 0
    ELSE scale + (EwmDen(span, scale, k - 1) * (span - 1)) \div (span + 1)

\* the mean in 1/unit of the points' own unit
EwmMean(xs, span, scale, k, unit) ==
    LET num == EwmNum(xs, span, scale, k)
        den == EwmDen(span, scale, k)
    IN  (num \div den) * unit + ((num % den) * unit) \div den

\* ema12 - ema26 at every point, in thousandths
MacdLine(prices) ==
    [k \in 1 .. Len(prices) |->
        EwmMean(prices, EMA_FAST, 10 * Unit, k, Unit)
        - EwmMean(prices, EMA_SLOW, 10 * Unit, k, Unit)]

_calculate_macd(prices) ==
    IF Len(prices) < MACD_MIN_POINTS THEN MACD_DEFAULT
    ELSE LET macd_line == MacdLine(prices)
             last == macd_line[Len(prices)]
             signal_line == EwmMean(macd_line, EMA_SIGNAL, Unit, Len(prices), 1)
         IN  [macd |-> NanToDefault(last, 0),
              signal |-> NanToDefault(signal_line, 0),
              histogram |-> NanToDefault(last - signal_line, 0)]

RECURSIVE Newton(_, _)
Newton(x, r) ==
    LET nr == (r + x \div r) \div 2
    IN  IF nr >= r THEN r ELSE Newton(x, nr)

\* the integer square root
Isqrt(x) == IF x < 2 THEN x ELSE Newton(x, x)

BB_PERIOD == 20

BB_DEFAULT == [upper |-> 0, middle |-> 0, lower |-> 0, position |-> 500]

\* rolling mean and sample standard deviation of the last BB_PERIOD closes;
\* the deviation is rounded down to a thousandth
_calculate_bollinger_bands(prices) ==
    IF Len(prices) < BB_PERIOD THEN BB_DEFAULT
    ELSE LET window == SubSeq(prices, Len(prices) - BB_PERIOD + 1, Len(prices))
             total == SumSeq(window)
             squares == SumSeq([i \in 1 .. BB_PERIOD |-> window[i] * window[i]])
             spread == BB_PERIOD * squares - total * total
             std == Isqrt((spread * ((Unit * Unit) \div BB_PERIOD)) \div (BB_PERIOD - 1))
             middle == (total * Unit) \div BB_PERIOD
             upper == middle + 2 * std
             lower == middle - 2 * std
             current_price == prices[Len(prices)] * Unit
         IN  [upper |-> NanToDefault(upper, 0),
              middle |-> NanToDefault(middle, 0),
              lower |-> NanToDefault(lower, 0),
              position |-> IF upper # NaN /\ lower # NaN /\ upper # lower
                           THEN NanToDefault(((current_price - lower) * Unit)
                                                \div (upper - lower), 500)
                           ELSE 500]

\* the loop body of _analyze_technical_indicators for one token
TechnicalEntry(outcome) ==
    IF outcome.kind # "history" THEN _get_default_technical_data
    ELSE [rsi |-> _calculate_rsi(outcome.prices),
          macd |-> _calculate_macd(outcome.prices),
          bollinger_bands |-> _calculate_bollinger_bands(outcome.prices),
          current_price |-> outcome.close,
          volume |-> outcome.volume]

-----------------------------------------------------------------------------
(* _calculate_overall_confidence: the mean of every token's two social     *)
(* confidences, its news confidence, and 0.8 or 0.1 for its price data.     *)

TECH_CONFIDENT == 800

TECH_UNCONFIDENT == 100

EMPTY_CONFIDENCE == 300

RECURSIVE ConfidenceList(_, _, _, _)
ConfidenceList(toks, social, news, technical) ==
    IF toks = <<>> THEN <<>>
    ELSE LET t == Head(toks)
         IN  << Get(Get(social[t], "twitter", None), "confidence", 0),
                Get(Get(social[t], "reddit", None), "confidence", 0),
                Get(news[t], "confidence", 0),
                IF Get(technical[t], "current_price", 0) > 0
                THEN TECH_CONFIDENT ELSE TECH_UNCONFIDENT >>
             \o ConfidenceList(Tail(toks), social, news, technical)

TokenList == [i \in 1 .. NumTokens |-> i]

_calculate_overall_confidence(social, news, technical) ==
    LET confidences == ConfidenceList(TokenList, social, news, technical)
    IN  IF confidences = <<>> THEN EMPTY_CONFIDENCE
        ELSE SumSeq(confidences) \div Len(confidences)

-----------------------------------------------------------------------------
(* Research engine.  A synthesizer response is an API error, a text that   *)
(* is no JSON, JSON that is no object, or a JSON object; the object's       *)
(* confidence_score is absent, a number, or a value that is no number.      *)

Num(n) == [type |-> "number", value |-> n]

NonNumber == [type |-> "string", value |-> 0]

Absent == [type |-> "absent", value |-> 0]

IsNumber(j) == j.type = "number"

Synth(k, c) == [kind |-> k, confidence_score |-> c]

SynthOutcomes ==
    {Synth("api_error", Absent), Synth("text", Absent), Synth("json_other", Absent)}
    \cup {Synth("json_dict", c) : c \in {Absent, Num(850), Num(5000), NonNumber}}

\* A dict as Python keeps it is [items |-> the <<key, value>> pairs in insertion
\* order]; keys are numbered in the lexicographic order of their names.  A
\* value is [scalar |-> n] or such a dict.  A record of this module is a dict
\* whose insertion order is left out: it stands for its own sorted form.
MaxKeys == 2

Scalar(n) == [scalar |-> n]

Dict(items) == [items |-> items]

DistinctKeys(items) ==
    \A i, j \in DOMAIN items : i # j => items[i][1] # items[j][1]

DictsOver(values) ==
    {Dict(s) : s \in {q \in SeqsUpTo((1 .. MaxKeys) \X values, MaxKeys) : DistinctKeys(q)}}

NestedSamples ==
    {Dict(<<>>),
     Dict(<<<<1, Scalar(10)>>, <<2, Scalar(11)>>>>),
     Dict(<<<<2, Scalar(11)>>, <<1, Scalar(10)>>>>)}

ContentSamples == DictsOver({Scalar(10), Scalar(11)} \cup NestedSamples)

\* The same serialisation without sort_keys: the items in insertion order.
json_dumps_unsorted(content) == content

RECURSIVE json_dumps(_)
RECURSIVE SortedItems(_)
\* the items by ascending key, each value serialised
SortedItems(items) ==
    IF items = <<>> THEN <<>>
    ELSE LET first == CHOOSE i \in DOMAIN items :
                          \A j \in DOMAIN items : items[i][1] <= items[j][1]
             rest == SelectSeq(items, LAMBDA it : it[1] # items[first][1])
         IN  <<[key |-> items[first][1], value |-> json_dumps(items[first][2])]>>
             \o SortedItems(rest)

\* json.dumps(content, sort_keys=True)
json_dumps(content) ==
    IF "scalar" \in DOMAIN content THEN content
    ELSE [object |-> SortedItems(content.items)]

\* hashlib.sha256(...).hexdigest(): the digest stands for the string it was
\* computed from.  When serialisation raises, the string is str(time.time()).
_create_content_hash(content, now) ==
    IF "not_json" \in DOMAIN content
    THEN [sha256 |-> [time |-> now]]
    ELSE IF "items" \in DOMAIN content
    THEN [sha256 |-> json_dumps(content)]
    ELSE [sha256 |-> content]

\* ', '.join(article.get('title', '')) raises on a null title
_prepare_analysis_context_raises(news) ==
    \E i \in 1 .. Min(Len(news), 10) : news[i] = "null_title"

PARSE_FALLBACK_CONFIDENCE == 700

API_ERROR_CONFIDENCE == 100

\* [raised, is_dict, value]: the context preparation is outside the try
_generate_analysis(news, outcome) ==
    IF _prepare_analysis_context_raises(news)
    THEN [raised |-> TRUE, is_dict |-> FALSE, value |-> None]
    ELSE IF outcome.kind = "api_error"
    THEN [raised |-> FALSE, is_dict |-> TRUE,
          value |-> [error |-> "Failed to generate analysis",
                     confidence |-> Num(API_ERROR_CONFIDENCE)]]
    ELSE IF outcome.kind = "text"
    THEN [raised |-> FALSE, is_dict |-> TRUE,
          value |-> [executive_summary |-> "text", raw_analysis |-> "text",
                     confidence |-> Num(PARSE_FALLBACK_CONFIDENCE)]]
    ELSE IF outcome.kind = "json_other"
    THEN [raised |-> FALSE, is_dict |-> FALSE, value |-> None]
    ELSE IF outcome.confidence_score = Absent
    THEN [raised |-> FALSE, is_dict |-> TRUE,
          value |-> [executive_summary |-> "json"]]
    ELSE [raised |-> FALSE, is_dict |-> TRUE,
          value |-> [executive_summary |-> "json",
                     confidence_score |-> outcome.confidence_score]]

REPORT_DEFAULT_CONFIDENCE == 500

REPORT_FALLBACK_CONFIDENCE == 300

MENTION_VOLUME == 1200

FallbackReport(error, now) ==
    [timestamp |-> now,
     tokens_analyzed |-> TokenList,
     analysis |-> [executive_summary |-> "limited data",
                   key_findings |-> [t \in Tokens |-> "Basic analysis completed"],
                   market_sentiment |-> "Neutral",
                   confidence_score |-> Num(REPORT_FALLBACK_CONFIDENCE),
                   error |-> error],
     confidence_score |-> Num(REPORT_FALLBACK_CONFIDENCE),
     research_hash |-> _create_content_hash([error |-> error, timestamp |-> now], now)]

generate_daily_research(news, outcome, now) ==
    LET analysis == _generate_analysis(news, outcome)
    IN  IF analysis.raised THEN FallbackReport("TypeError", now)
        ELSE IF ~analysis.is_dict THEN FallbackReport("AttributeError", now)
        ELSE [timestamp |-> now,
              tokens_analyzed |-> TokenList,
              data_sources |-> [news_articles |-> Len(news),
                                price_data_points |-> NumTokens,
                                social_mentions |-> MENTION_VOLUME * NumTokens],
              analysis |-> analysis.value,
              confidence_score |->
                  Get(analysis.value, "confidence_score", Num(REPORT_DEFAULT_CONFIDENCE)),
              research_hash |-> _create_content_hash(analysis.value, now),
              content_hash |-> _create_content_hash(analysis.value, now)]

-----------------------------------------------------------------------------
(* run_comprehensive_analysis: the values it builds *)

GLOBAL_TIMEOUT == 60

NEWS_TIMEOUT == 10

TIMEOUT_CONFIDENCE == 300

TimeoutFallback ==
    [social_sentiment |-> [t \in Tokens |-> [overall |-> 0, volume |-> 0]],
     news_sentiment |-> [t \in Tokens |-> [sentiment |-> 0, confidence |-> 0]],
     technical_analysis |-> [t \in Tokens |-> [rsi |-> 50 * Unit, current_price |-> 0]],
     confidence_score |-> TIMEOUT_CONFIDENCE,
     status |-> "timeout"]

\* the handler around generate_daily_research, which does not raise
ResearchOrFallback(raised, report) ==
    IF raised
    THEN [analysis |-> [executive_summary |-> "limited data",
                        confidence_score |-> Num(200),
                        error |-> "Exception"],
          research_hash |-> "fallback_hash"]
    ELSE report

MISSING_CONFIDENCE == 300

FinalResult(nlp, research, now) ==
    LET rc == Get(research, "confidence_score", Num(MISSING_CONFIDENCE))
    IN  IF ~IsNumber(rc)
        THEN [error |-> "TypeError", tokens_analyzed |-> TokenList, timestamp |-> now]
        ELSE [nlp_analysis |-> nlp,
              research_report |-> research,
              tokens_analyzed |-> TokenList,
              timestamp |-> now,
              overall_confidence |->
                  (Get(nlp, "confidence_score", MISSING_CONFIDENCE) + rc.value) \div 2]

-----------------------------------------------------------------------------
(* What the providers may do *)

PostSamples ==
    {[text |-> MoonText, score |-> 500, broken |-> FALSE],
     [text |-> CrashText, score |-> 3, broken |-> FALSE],
     [text |-> CalmText, score |-> 0, broken |-> TRUE]}

NoPosts == [posts |-> <<>>, failed |-> FALSE]

Subreddit(p, f) == [posts |-> p, failed |-> f]

\* the first subreddit answers or fails, the others yield nothing
RedditFeeds ==
    {[s \in 1 .. NUM_SUBREDDITS |-> IF s = 1 THEN r ELSE NoPosts] :
        r \in {Subreddit(p, FALSE) : p \in SeqsUpTo(PostSamples, Min(MaxItems, SEARCH_LIMIT))}
              \cup {Subreddit(<<>>, TRUE)}}

TweetSamples ==
    {[text |-> MoonText, engagement |-> 5000],
     [text |-> CrashText, engagement |-> -1]}

TwitterOutcomes ==
    {[rate_check |-> "exhausted", search |-> "ok", tweets |-> <<>>],
     [rate_check |-> "fails", search |-> "too_many_requests", tweets |-> <<>>],
     [rate_check |-> "fails", search |-> "error", tweets |-> <<>>]}
    \cup {[rate_check |-> "ok", search |-> "ok", tweets |-> t] :
            t \in SeqsUpTo(TweetSamples, MaxItems)}

NotCalled == {None}

NewsResponses(q) ==
    SeqsUpTo({Article(q, {q}, CrashText), Article(q, Tokens, CalmText),
              MalformedArticle(q)},
             Min(MaxItems, NEWS_PER_TOKEN))

PriceOutcomes ==
    {PriceOutcome("raises", <<>>, 0), PriceOutcome("empty", <<>>, 0),
     PriceOutcome("history", BentSeries(RSI_PERIOD + 1, 1, 1, 0), 7)}

ResearchNews == SeqsUpTo({"headline", "null_title"}, MaxItems)

-----------------------------------------------------------------------------
(* The process *)

\* asyncio.sleep(60) of the handler for a cycle that raised
RETRY_DELAY == 60

\* interval: int = 3600
MONITOR_INTERVAL == 3600

FirstCycle == [previous |-> "none", slept |-> 0]

\* os.getenv gives None for a variable that is not set, else its string
KeySamples == {"unset", "", "sk-key"}

\* Python truth of a configuration value
Truthy(v) == v \notin {"unset", ""}

\* A validation that rejects only an unset key and lets an empty one through.
_validate_config_unset_only(c) == c.openai_api_key # "unset"

_validate_config(c) == Truthy(c.openai_api_key)

\* sys.argv[1].lower(), "default" when there is no argument
Commands == {"analyze", "default", "monitor", "test", "unknown"}

RunsAnalysis(cmd) == cmd \in {"analyze", "default", "monitor"}

Init ==
    /\ config \in [openai_api_key : KeySamples, reddit : BOOLEAN, newsapi_key : BOOLEAN]
    /\ command \in Commands
    /\ synth_seen = None
    /\ monitoring = FirstCycle
    /\ fn_call = None
    /\ fn_return = None
    /\ nlp_processor = FALSE
    /\ research_engine = FALSE
    /\ pc = "start"
    /\ twitter_client = FALSE
    /\ reddit_client = FALSE
    /\ idx = 1
    /\ elapsed = 0
    /\ social_sentiments = None
    /\ news_data = <<>>
    /\ news_sentiment = None
    /\ technical_analysis = None
    /\ reddit_seen = None
    /\ twitter_seen = None
    /\ price_seen = None
    /\ nlp_result = None
    /\ research_data = <<>>
    /\ research_result = None
    /\ result = None
    /\ exit_code = -1
    /\ exit_path = "running"

\* main: engine.initialize(); _init_social_apis leaves Twitter disabled
Initialize ==
    /\ pc = "start"
    /\ IF ~_validate_config(config)
       THEN /\ pc' = "exit"
            /\ exit_code' = 1
            /\ exit_path' = "fatal"
            /\ UNCHANGED <<twitter_client, reddit_client, nlp_processor,
                           research_engine>>
       ELSE /\ pc' = IF RunsAnalysis(command) THEN "social" ELSE "command"
            /\ nlp_processor' = TRUE
            /\ research_engine' = TRUE
            /\ twitter_client' = FALSE
            /\ reddit_client' = config.reddit
            /\ UNCHANGED <<exit_code, exit_path>>
    /\ UNCHANGED <<config, command, monitoring, fn_call, fn_return, synth_seen, idx, elapsed, social_sentiments, news_data,
                   news_sentiment, technical_analysis, reddit_seen, twitter_seen,
                   price_seen, nlp_result, research_data, research_result, result>>

\* asyncio.wait_for covers the call when the command line made it
UnderDeadline == command # "none"

Completes(d) == ~UnderDeadline \/ elapsed + d <= GLOBAL_TIMEOUT

\* how long a provider call may take; time is counted only for a run that
\* run_comprehensive_analysis started
CallTimes(called, slow) == IF UnderDeadline /\ called THEN {0, slow} ELSE {0}

NextToken(stage, after) ==
    /\ idx' = IF idx < NumTokens THEN idx + 1 ELSE 1
    /\ pc' = IF idx < NumTokens THEN stage ELSE after

\* _analyze_social_sentiment: one iteration of its loop
AnalyzeSocial ==
    /\ pc = "social"
    /\ \E tw \in IF twitter_client THEN TwitterOutcomes ELSE NotCalled,
          rd \in IF reddit_client THEN RedditFeeds ELSE NotCalled,
          d \in CallTimes(reddit_client, SlowCall) :
        /\ Completes(d)
        /\ social_sentiments' = social_sentiments @@
              (idx :> CombineSocial(_analyze_twitter_sentiment(twitter_client, tw),
                                    _analyze_reddit_sentiment(reddit_client, rd)))
        /\ twitter_seen' = IF twitter_client THEN twitter_seen @@ (idx :> tw) ELSE twitter_seen
        /\ reddit_seen' = IF reddit_client THEN reddit_seen @@ (idx :> rd) ELSE reddit_seen
        /\ elapsed' = elapsed + d
    /\ NextToken("social", "news_fetch")
    /\ UNCHANGED <<config, command, monitoring, fn_call, fn_return, synth_seen, nlp_processor, research_engine, twitter_client, reddit_client, news_data,
                   news_sentiment, technical_analysis, price_seen, nlp_result,
                   research_data, research_result, result, exit_code, exit_path>>

\* _fetch_news_data: one iteration of its loop
FetchNews ==
    /\ pc = "news_fetch"
    /\ \E articles \in IF config.newsapi_key THEN NewsResponses(idx) ELSE {<<>>},
          d \in CallTimes(config.newsapi_key, NEWS_TIMEOUT) :
        /\ Completes(d)
        /\ news_data' = news_data \o articles
        /\ elapsed' = elapsed + d
    /\ NextToken("news_fetch", "news_analyze")
    /\ UNCHANGED <<config, command, monitoring, fn_call, fn_return, synth_seen, nlp_processor, research_engine, twitter_client, reddit_client, social_sentiments,
                   news_sentiment, technical_analysis, reddit_seen, twitter_seen,
                   price_seen, nlp_result, research_data, research_result, result,
                   exit_code, exit_path>>

AnalyzeNews ==
    /\ pc = "news_analyze"
    /\ news_sentiment' = _analyze_news_sentiment(news_data)
    /\ pc' = "technical"
    /\ UNCHANGED <<config, command, monitoring, fn_call, fn_return, synth_seen, nlp_processor, research_engine, twitter_client, reddit_client, idx, elapsed,
                   social_sentiments, news_data, technical_analysis, reddit_seen,
                   twitter_seen, price_seen, nlp_result, research_data,
                   research_result, result, exit_code, exit_path>>

\* _analyze_technical_indicators: one iteration; the provider call blocks
AnalyzeTechnical ==
    /\ pc = "technical"
    /\ \E outcome \in PriceOutcomes, d \in CallTimes(TRUE, SlowCall) :
        /\ technical_analysis' = technical_analysis @@ (idx :> TechnicalEntry(outcome))
        /\ price_seen' = price_seen @@ (idx :> outcome)
        /\ elapsed' = elapsed + d
    /\ NextToken("technical", "combine")
    /\ UNCHANGED <<config, command, monitoring, fn_call, fn_return, synth_seen, nlp_processor, research_engine, twitter_client, reddit_client, social_sentiments,
                   news_data, news_sentiment, reddit_seen, twitter_seen, nlp_result,
                   research_data, research_result, result, exit_code, exit_path>>

\* comprehensive_market_analysis returns and its frame is gone; wait_for
\* hands its value on
CombineAnalysis ==
    /\ pc = "combine"
    /\ nlp_result' =
          [social_sentiment |-> social_sentiments,
           news_sentiment |-> news_sentiment,
           technical_analysis |-> technical_analysis,
           timestamp |-> elapsed,
           confidence_score |->
               _calculate_overall_confidence(social_sentiments, news_sentiment,
                                             technical_analysis)]
    /\ pc' = IF UnderDeadline THEN "research_fetch" ELSE "done"
    /\ social_sentiments' = None
    /\ news_data' = <<>>
    /\ news_sentiment' = None
    /\ technical_analysis' = None
    /\ reddit_seen' = None
    /\ twitter_seen' = None
    /\ price_seen' = None
    /\ UNCHANGED <<config, command, monitoring, fn_call, fn_return, synth_seen, nlp_processor, research_engine, twitter_client, reddit_client, idx, elapsed,
                   research_data, research_result, result, exit_code, exit_path>>

Suspended ==
    IF pc = "social" THEN reddit_client
    ELSE IF pc = "news_fetch" THEN config.newsapi_key
    ELSE FALSE

SuspensionTimes ==
    IF pc = "social" THEN {0, SlowCall} ELSE {0, NEWS_TIMEOUT}

\* asyncio.TimeoutError: the deadline passes while a provider call is awaited
NLPTimeout ==
    /\ UnderDeadline
    /\ Suspended
    /\ \E d \in SuspensionTimes : elapsed + d > GLOBAL_TIMEOUT
    /\ nlp_result' = TimeoutFallback
    /\ elapsed' = Max(elapsed, GLOBAL_TIMEOUT)
    /\ pc' = "research_fetch"
    /\ UNCHANGED <<config, command, monitoring, fn_call, fn_return, synth_seen, nlp_processor, research_engine, twitter_client, reddit_client, idx,
                   social_sentiments, news_data, news_sentiment, technical_analysis,
                   reddit_seen, twitter_seen, price_seen, research_data,
                   research_result, result, exit_code, exit_path>>

\* generate_daily_research: _fetch_news_data, _fetch_price_data, _fetch_social_sentiment
FetchResearchData ==
    /\ pc = "research_fetch"
    /\ \E news \in IF config.newsapi_key THEN ResearchNews ELSE {<<>>} :
        research_data' = news
    /\ pc' = "research_analysis"
    /\ UNCHANGED <<config, command, monitoring, fn_call, fn_return, synth_seen, nlp_processor, research_engine, twitter_client, reddit_client, idx, elapsed,
                   social_sentiments, news_data, news_sentiment, technical_analysis,
                   reddit_seen, twitter_seen, price_seen, nlp_result,
                   research_result, result, exit_code, exit_path>>

\* generate_daily_research: _generate_analysis and the report
GenerateResearch ==
    /\ pc = "research_analysis"
    /\ \E outcome \in SynthOutcomes, d \in CallTimes(TRUE, SlowCall) :
        /\ research_result' =
              ResearchOrFallback(FALSE,
                  generate_daily_research(research_data, outcome, elapsed + d))
        /\ elapsed' = elapsed + d
        /\ synth_seen' = IF _prepare_analysis_context_raises(research_data)
                         THEN None ELSE outcome
    /\ research_data' = <<>>
    /\ pc' = "finalize"
    /\ UNCHANGED <<config, command, monitoring, fn_call, fn_return, nlp_processor, research_engine, twitter_client, reddit_client, idx,
                   social_sentiments, news_data, news_sentiment, technical_analysis,
                   reddit_seen, twitter_seen, price_seen, nlp_result,
                   result, exit_code, exit_path>>

\* run_comprehensive_analysis: combine and return
Finalize ==
    /\ pc = "finalize"
    /\ result' = FinalResult(nlp_result, research_result, elapsed)
    /\ pc' = "report"
    /\ UNCHANGED <<config, command, monitoring, fn_call, fn_return, synth_seen, nlp_processor, research_engine, twitter_client, reddit_client, idx, elapsed,
                   social_sentiments, news_data, news_sentiment, technical_analysis,
                   reddit_seen, twitter_seen, price_seen, nlp_result,
                   research_data, research_result, exit_code, exit_path>>

\* main: print the result; a missing key raises into main's handler
ExitPath(cmd, res) ==
    IF "error" \in DOMAIN res
    THEN "failed"
    ELSE IF Get(res, "research_report", None) # None
            /\ "content_hash" \notin DOMAIN res.research_report
    THEN "fatal"
    ELSE "normal"

ExitCode(cmd, res) ==
    IF ExitPath(cmd, res) = "fatal" THEN 1
    ELSE IF ExitPath(cmd, res) = "failed" /\ cmd = "default" THEN 1
    ELSE 0

Report ==
    /\ pc = "report"
    /\ command \in {"analyze", "default"}
    /\ exit_path' = ExitPath(command, result)
    /\ exit_code' = ExitCode(command, result)
    /\ pc' = "exit"
    /\ UNCHANGED <<config, command, monitoring, fn_call, fn_return, synth_seen, nlp_processor, research_engine, twitter_client, reddit_client, idx, elapsed,
                   social_sentiments, news_data, news_sentiment, technical_analysis,
                   reddit_seen, twitter_seen, price_seen, nlp_result,
                   research_data, research_result, result>>

\* run_continuous_monitoring: the cycle's result is logged and dropped, the
\* loop sleeps and calls run_comprehensive_analysis again.  The call has
\* returned a dict, so the handler that retries after RETRY_DELAY is not taken.
MonitorCycle ==
    /\ pc = "report"
    /\ command = "monitor"
    /\ pc' = "social"
    /\ monitoring' = [previous |-> IF "error" \in DOMAIN result THEN "error" ELSE "ok",
                      slept |-> MONITOR_INTERVAL]
    /\ elapsed' = 0
    /\ nlp_result' = None
    /\ research_result' = None
    /\ result' = None
    /\ synth_seen' = None
    /\ UNCHANGED <<config, command, fn_call, fn_return, nlp_processor, research_engine, twitter_client,
                   reddit_client, idx, social_sentiments, news_data, news_sentiment,
                   technical_analysis, reddit_seen, twitter_seen, price_seen,
                   research_data, exit_code, exit_path>>

\* Ctrl-C while the monitoring loop runs or sleeps: the loop is left and the
\* process ends
Interrupt ==
    /\ command = "monitor"
    /\ pc \notin {"start", "exit"}
    /\ pc' = "exit"
    /\ exit_path' = "interrupted"
    /\ exit_code' = 0
    /\ UNCHANGED <<config, command, monitoring, fn_call, fn_return, synth_seen, nlp_processor,
                   research_engine, twitter_client, reddit_client, idx, elapsed,
                   social_sentiments, news_data, news_sentiment, technical_analysis,
                   reddit_seen, twitter_seen, price_seen, nlp_result, research_data,
                   research_result, result>>

\* main: the test command prints its verdict and returns; an unknown command
\* prints the usage and calls sys.exit(1)
OtherCommand ==
    /\ pc = "command"
    /\ pc' = "exit"
    /\ exit_path' = IF command = "test" THEN "normal" ELSE "usage"
    /\ exit_code' = IF command = "test" THEN 0 ELSE 1
    /\ UNCHANGED <<config, command, monitoring, fn_call, fn_return, synth_seen, nlp_processor, research_engine, twitter_client,
                   reddit_client, idx, elapsed, social_sentiments, news_data,
                   news_sentiment, technical_analysis, reddit_seen, twitter_seen,
                   price_seen, nlp_result, research_data, research_result, result>>

Next ==
    \/ Initialize
    \/ AnalyzeSocial
    \/ FetchNews
    \/ AnalyzeNews
    \/ AnalyzeTechnical
    \/ CombineAnalysis
    \/ NLPTimeout
    \/ FetchResearchData
    \/ GenerateResearch
    \/ Finalize
    \/ Report
    \/ MonitorCycle
    \/ Interrupt
    \/ OtherCommand

Spec == Init /\ [][Next]_vars

-----------------------------------------------------------------------------
(* The NLP processor on its own: comprehensive_market_analysis awaited      *)
(* directly on a processor whose clients are given, no deadline around it.  *)

InitAdapters ==
    /\ config \in [openai_api_key : {"sk-key"}, reddit : BOOLEAN, newsapi_key : BOOLEAN]
    /\ synth_seen = None
    /\ monitoring = FirstCycle
    /\ fn_call = None
    /\ fn_return = None
    /\ nlp_processor = TRUE
    /\ research_engine = FALSE
    /\ command = "none"
    /\ pc = "social"
    /\ twitter_client \in BOOLEAN
    /\ reddit_client = config.reddit
    /\ idx = 1
    /\ elapsed = 0
    /\ social_sentiments = None
    /\ news_data = <<>>
    /\ news_sentiment = None
    /\ technical_analysis = None
    /\ reddit_seen = None
    /\ twitter_seen = None
    /\ price_seen = None
    /\ nlp_result = None
    /\ research_data = <<>>
    /\ research_result = None
    /\ result = None
    /\ exit_code = -1
    /\ exit_path = "running"

NextAdapters ==
    \/ AnalyzeSocial
    \/ FetchNews
    \/ AnalyzeNews
    \/ AnalyzeTechnical
    \/ CombineAnalysis

SpecAdapters == InitAdapters /\ [][NextAdapters]_vars

-----------------------------------------------------------------------------
(* Helpers called on their own, on arguments the program can pass them.     *)

HashCalls ==
    {[fn |-> "_create_content_hash", first |-> a, second |-> b] :
        a \in ContentSamples, b \in ContentSamples}

\* generate_daily_research run twice, each time on its own fetched news and
\* synthesizer answer, at its own time
ResearchInputs ==
    {[news |-> n, outcome |-> o, now |-> t] :
        n \in ResearchNews, o \in SynthOutcomes, t \in {0, 1}}

ResearchCalls ==
    {[fn |-> "generate_daily_research", first |-> a, second |-> b] :
        a \in ResearchInputs, b \in ResearchInputs}

IndicatorCalls ==
    {[fn |-> f, prices |-> s] :
        f \in {"_calculate_rsi", "_calculate_macd", "_calculate_bollinger_bands"},
        s \in SeriesSamples}

\* the price provider raises or returns a history of any sampled length
TechnicalCalls ==
    {[fn |-> "_analyze_technical_indicators", outcome |-> o] :
        o \in {PriceOutcome("raises", <<>>, 0)}
               \cup {PriceOutcome(IF s = <<>> THEN "empty" ELSE "history", s,
                                  IF s = <<>> THEN 0 ELSE 7) :
                        s \in SeriesSamples}}

\* the Reddit adapter on a token for which each of the subreddits yields any
\* number of posts up to the search limit
RedditCalls ==
    {[fn |-> "_analyze_reddit_sentiment",
      feed |-> [s \in 1 .. NUM_SUBREDDITS |->
                   Subreddit([i \in 1 .. counts[s] |->
                                 [text |-> CrashText, score |-> 3, broken |-> FALSE]],
                             FALSE)]] :
        counts \in [1 .. NUM_SUBREDDITS -> 0 .. SEARCH_LIMIT]}

FunctionCalls ==
    HashCalls \cup ResearchCalls \cup IndicatorCalls \cup TechnicalCalls \cup RedditCalls

InitFunctions ==
    /\ fn_call \in FunctionCalls
    /\ fn_return = None
    /\ config = [openai_api_key |-> "sk-key", reddit |-> FALSE, newsapi_key |-> FALSE]
    /\ command = "none"
    /\ pc = "function"
    /\ twitter_client = FALSE
    /\ reddit_client = FALSE
    /\ idx = 1
    /\ elapsed = 0
    /\ social_sentiments = None
    /\ news_data = <<>>
    /\ news_sentiment = None
    /\ technical_analysis = None
    /\ reddit_seen = None
    /\ twitter_seen = None
    /\ price_seen = None
    /\ nlp_result = None
    /\ research_data = <<>>
    /\ research_result = None
    /\ result = None
    /\ exit_code = -1
    /\ exit_path = "running"
    /\ synth_seen = None
    /\ monitoring = FirstCycle
    /\ nlp_processor = FALSE
    /\ research_engine = TRUE

\* the first content hashed, hashed again a second later, and the second content
Call_create_content_hash ==
    /\ pc = "function"
    /\ fn_call.fn = "_create_content_hash"
    /\ fn_return = None
    /\ fn_return' = [first |-> _create_content_hash(fn_call.first, elapsed),
                     again |-> _create_content_hash(fn_call.first, elapsed + 1),
                     second |-> _create_content_hash(fn_call.second, elapsed)]
    /\ UNCHANGED <<config, command, monitoring, pc, fn_call, nlp_processor, research_engine,
                   synth_seen, twitter_client, reddit_client, idx, elapsed,
                   social_sentiments, news_data, news_sentiment, technical_analysis,
                   reddit_seen, twitter_seen, price_seen, nlp_result, research_data,
                   research_result, result, exit_code, exit_path>>

Call_generate_daily_research ==
    /\ pc = "function"
    /\ fn_call.fn = "generate_daily_research"
    /\ fn_return = None
    /\ fn_return' =
          [first |-> generate_daily_research(fn_call.first.news, fn_call.first.outcome,
                                             fn_call.first.now),
           second |-> generate_daily_research(fn_call.second.news, fn_call.second.outcome,
                                              fn_call.second.now)]
    /\ UNCHANGED <<config, command, monitoring, pc, fn_call, nlp_processor, research_engine,
                   synth_seen, twitter_client, reddit_client, idx, elapsed,
                   social_sentiments, news_data, news_sentiment, technical_analysis,
                   reddit_seen, twitter_seen, price_seen, nlp_result, research_data,
                   research_result, result, exit_code, exit_path>>

Call_calculate_rsi ==
    /\ pc = "function"
    /\ fn_call.fn = "_calculate_rsi"
    /\ fn_return = None
    /\ fn_return' = [rsi |-> _calculate_rsi(fn_call.prices)]
    /\ UNCHANGED <<config, command, monitoring, pc, fn_call, nlp_processor, research_engine,
                   synth_seen, twitter_client, reddit_client, idx, elapsed,
                   social_sentiments, news_data, news_sentiment, technical_analysis,
                   reddit_seen, twitter_seen, price_seen, nlp_result, research_data,
                   research_result, result, exit_code, exit_path>>

Call_calculate_bollinger_bands ==
    /\ pc = "function"
    /\ fn_call.fn = "_calculate_bollinger_bands"
    /\ fn_return = None
    /\ fn_return' = _calculate_bollinger_bands(fn_call.prices)
    /\ UNCHANGED <<config, command, monitoring, pc, fn_call, nlp_processor, research_engine,
                   synth_seen, twitter_client, reddit_client, idx, elapsed,
                   social_sentiments, news_data, news_sentiment, technical_analysis,
                   reddit_seen, twitter_seen, price_seen, nlp_result, research_data,
                   research_result, result, exit_code, exit_path>>

Call_calculate_macd ==
    /\ pc = "function"
    /\ fn_call.fn = "_calculate_macd"
    /\ fn_return = None
    /\ fn_return' = _calculate_macd(fn_call.prices)
    /\ UNCHANGED <<config, command, monitoring, pc, fn_call, nlp_processor, research_engine,
                   synth_seen, twitter_client, reddit_client, idx, elapsed,
                   social_sentiments, news_data, news_sentiment, technical_analysis,
                   reddit_seen, twitter_seen, price_seen, nlp_result, research_data,
                   research_result, result, exit_code, exit_path>>

\* _analyze_technical_indicators on one token
Call_analyze_technical_indicators ==
    /\ pc = "function"
    /\ fn_call.fn = "_analyze_technical_indicators"
    /\ fn_return = None
    /\ fn_return' = TechnicalEntry(fn_call.outcome)
    /\ UNCHANGED <<config, command, monitoring, pc, fn_call, nlp_processor, research_engine,
                   synth_seen, twitter_client, reddit_client, idx, elapsed,
                   social_sentiments, news_data, news_sentiment, technical_analysis,
                   reddit_seen, twitter_seen, price_seen, nlp_result, research_data,
                   research_result, result, exit_code, exit_path>>

Call_analyze_reddit_sentiment ==
    /\ pc = "function"
    /\ fn_call.fn = "_analyze_reddit_sentiment"
    /\ fn_return = None
    /\ fn_return' = _analyze_reddit_sentiment(TRUE, fn_call.feed)
    /\ UNCHANGED <<config, command, monitoring, pc, fn_call, nlp_processor, research_engine,
                   synth_seen, twitter_client, reddit_client, idx, elapsed,
                   social_sentiments, news_data, news_sentiment, technical_analysis,
                   reddit_seen, twitter_seen, price_seen, nlp_result, research_data,
                   research_result, result, exit_code, exit_path>>

NextFunctions ==
    \/ Call_analyze_reddit_sentiment
    \/ Call_create_content_hash
    \/ Call_generate_daily_research
    \/ Call_calculate_rsi
    \/ Call_calculate_bollinger_bands
    \/ Call_calculate_macd
    \/ Call_analyze_technical_indicators

SpecFunctions == InitFunctions /\ [][NextFunctions]_vars

-----------------------------------------------------------------------------
(* Properties *)

InUnitRange(x) == -Unit <= x /\ x <= Unit

InUnitInterval(x) == 0 <= x /\ x <= Unit

Returned == pc \in {"report", "exit"} /\ result # None

TimedOut == Get(nlp_result, "status", "none") = "timeout"

WellFormed(articles) == SelectSeq(articles, LAMBDA a : ~a.malformed)

OwnResponseOk(t) ==
    \A i \in 1 .. Len(news_data) : news_data[i].query = t => ~news_data[i].malformed

\* C1: an exception raised while processing one source for one token changes
\* no value reported for another source or token, and the combined analysis
\* with its confidence_score is still returned.  Stated on the NLP stage once
\* every source has been processed: a token whose own news response held no
\* malformed entry gets the news value of the articles that mention it, a
\* token whose price history arrived gets its own close, and the combined
\* analysis handed on carries confidence_score.
C1_SourceFailureIsolated ==
    /\ pc = "combine" =>
          \A t \in Tokens :
              /\ OwnResponseOk(t) =>
                     news_sentiment[t] = NewsEntry(t, WellFormed(news_data))
              /\ price_seen[t].kind = "history" =>
                     technical_analysis[t].current_price = price_seen[t].close
              /\ social_sentiments[t].reddit =
                     _analyze_reddit_sentiment(reddit_client, Get(reddit_seen, t, None))
    /\ (nlp_result # None /\ ~TimedOut) => "confidence_score" \in DOMAIN nlp_result

\* C2: with a valid configuration, a result without a top-level 'error' has a
\* research_report that carries 'content_hash', and the process ends normally
\* (exit status 0, not through main's handler for uncaught exceptions).
C2_ReportCarriesContentHash ==
    (pc = "exit" /\ command \in {"analyze", "default"} /\ _validate_config(config)
        /\ "error" \notin DOMAIN result) =>
        /\ "content_hash" \in DOMAIN result.research_report
        /\ exit_path = "normal"
        /\ exit_code = 0

\* C3: when the deadline expires during the NLP fan-out, the run returns a
\* result with no top-level 'error' whose nlp_analysis has status 'timeout',
\* confidence_score 0.3 and a neutral default for every token, and the
\* research stage has run.
C3_TimeoutIsNotAnError ==
    (Returned /\ TimedOut) =>
        /\ "error" \notin DOMAIN result
        /\ result.nlp_analysis.status = "timeout"
        /\ result.nlp_analysis.confidence_score = 300
        /\ \A t \in Tokens :
              /\ result.nlp_analysis.social_sentiment[t].overall = 0
              /\ result.nlp_analysis.news_sentiment[t].sentiment = 0
              /\ result.nlp_analysis.technical_analysis[t].rsi = 50 * Unit
        /\ research_result # None
        /\ result.research_report = research_result

\* C4: when the deadline expires after some sources have completed, the report
\* holds the real signals of the sources that completed (defaults only for the
\* rest).
C4_PartialSignalsKept ==
    TimedOut =>
        \A t \in DOMAIN social_sentiments :
            /\ nlp_result.social_sentiment[t].overall = social_sentiments[t].overall
            /\ nlp_result.social_sentiment[t].volume = social_sentiments[t].volume

\* C5: run_comprehensive_analysis never keeps its caller waiting beyond the
\* global timeout: when it has returned, at most GLOBAL_TIMEOUT seconds have
\* passed since it was called.
C5_CallerWaitsAtMostTimeout ==
    Returned => elapsed <= GLOBAL_TIMEOUT

SourceInRange(sig) ==
    /\ InUnitRange(Get(sig, "sentiment", 0))
    /\ InUnitInterval(Get(sig, "confidence", 0))

\* C6: every sentiment the engine reports (per-source Twitter, Reddit, news
\* sentiment and the combined social 'overall') lies in [-1,1], and every
\* per-source confidence lies in [0,1].
C6_SentimentsAndConfidencesBounded ==
    /\ \A t \in DOMAIN social_sentiments :
          /\ SourceInRange(social_sentiments[t].twitter)
          /\ SourceInRange(social_sentiments[t].reddit)
          /\ InUnitRange(social_sentiments[t].overall)
    /\ \A t \in DOMAIN news_sentiment : SourceInRange(news_sentiment[t])

\* C7: the overall_confidence of the final result and the confidence_score of
\* the research report lie in [0,1] for every synthesizer response.
C7_ConfidencesInUnitInterval ==
    Returned =>
        /\ IsNumber(research_result.confidence_score)
        /\ InUnitInterval(research_result.confidence_score.value)
        /\ "overall_confidence" \in DOMAIN result
        /\ InUnitInterval(result.overall_confidence)

PostsOf(feed) == CollectPosts(<<>>, feed)

\* C8: for every text, the score _analyze_text_sentiment returns lies in
\* [-1,1].  Stated on every text the adapters have scored.
C8_TextScoreBounded ==
    /\ \A t \in DOMAIN reddit_seen :
          \A i \in 1 .. Len(PostsOf(reddit_seen[t])) :
              InUnitRange(_analyze_text_sentiment(PostsOf(reddit_seen[t])[i].text))
    /\ \A i \in 1 .. Len(news_data) :
          InUnitRange(_analyze_text_sentiment(news_data[i].text))

DegradedStatuses == {"no_data", "error", "rate_limited"}

LowConfidence(sig) ==
    Get(sig, "status", "none") \in DegradedStatuses => Get(sig, "confidence", 0) <= 100

\* C9: every signal an adapter returns with status no_data, error or
\* rate_limited carries confidence <= 0.1, and the analysis goes on: the same
\* token still gets its other source, and once the sources are processed every
\* token has its social, news and technical entry and the combined analysis
\* is returned with a confidence_score.
C9_DegradedSignalsLowConfidence ==
    /\ \A t \in DOMAIN social_sentiments :
          /\ LowConfidence(social_sentiments[t].twitter)
          /\ LowConfidence(social_sentiments[t].reddit)
          /\ "confidence" \in DOMAIN social_sentiments[t].reddit
    /\ pc = "combine" =>
          /\ DOMAIN social_sentiments = Tokens
          /\ DOMAIN news_sentiment = Tokens
          /\ DOMAIN technical_analysis = Tokens
    /\ pc = "done" =>
          /\ "confidence_score" \in DOMAIN nlp_result
          /\ \A t \in Tokens :
                /\ LowConfidence(nlp_result.social_sentiment[t].twitter)
                /\ LowConfidence(nlp_result.social_sentiment[t].reddit)

\* C9 witness: the analysis has returned; Twitter answered token 1 with a
\* rate-limited signal and the same token's Reddit posts were still analysed.
C9_Witness ==
    /\ pc = "done"
    /\ Get(nlp_result.social_sentiment[1].twitter, "status", "none") = "rate_limited"
    /\ nlp_result.social_sentiment[1].twitter.confidence = 100
    /\ Get(nlp_result.social_sentiment[1].reddit, "post_count", 0) > 0
    /\ Get(nlp_result.social_sentiment[NumTokens].twitter, "status", "none") = "error"

TwitterFailure(o) ==
    IF o.rate_check = "exhausted" \/ o.search = "too_many_requests" THEN "rate_limited"
    ELSE IF o.search = "error" THEN "error"
    ELSE "none"

RedditFailure(feed) ==
    IF \E s \in 1 .. Len(feed) : feed[s].failed THEN "error" ELSE "none"

NamesFailure(sig, failure) ==
    failure # "none" =>
        /\ Get(sig, "status", "none") = failure
        /\ Get(sig, "sentiment", 0) = 0

\* C10: on rate limiting or a provider error an adapter returns a signal whose
\* status names the failure and whose sentiment is exactly 0.
C10_FailureSignalsNeutral ==
    /\ \A t \in DOMAIN twitter_seen :
          NamesFailure(social_sentiments[t].twitter, TwitterFailure(twitter_seen[t]))
    /\ \A t \in DOMAIN reddit_seen :
          NamesFailure(social_sentiments[t].reddit, RedditFailure(reddit_seen[t]))

\* C11: when openai_api_key is missing or empty, initialize raises before
\* either engine is constructed, no analysis is run whatever the command, and
\* the process exits with status 1.
C11_MissingKeyIsFatal ==
    ~Truthy(config.openai_api_key) =>
        /\ ~nlp_processor
        /\ ~research_engine
        /\ pc \in {"start", "exit"}
        /\ social_sentiments = None
        /\ nlp_result = None
        /\ research_result = None
        /\ result = None
        /\ pc = "exit" => (exit_code = 1 /\ exit_path = "fatal")

\* C11 witness: the monitor command with an empty key has ended with status 1.
C11_Witness ==
    /\ config.openai_api_key = ""
    /\ command = "monitor"
    /\ pc = "exit"
    /\ exit_code = 1

\* C12: an optional source without credentials is disabled: for every token
\* its adapter makes no provider call and returns a signal with status
\* no_data; the missing credential does not stop startup.
C12_DisabledAdapterReturnsNoData ==
    /\ \A t \in DOMAIN social_sentiments :
          /\ ~twitter_client =>
                /\ t \notin DOMAIN twitter_seen
                /\ Get(social_sentiments[t].twitter, "status", "none") = "no_data"
          /\ ~reddit_client =>
                /\ t \notin DOMAIN reddit_seen
                /\ Get(social_sentiments[t].reddit, "status", "none") = "no_data"
    /\ (_validate_config(config) /\ pc # "start") => (nlp_processor /\ research_engine)

\* C13: when the synthesizer's answer is not valid structured data (text that
\* is no JSON, or JSON that is no object), the analysis is the minimal
\* fallback holding the raw text with confidence 0.7, and the regular report
\* is produced around it.
C13_UnparsedAnswerWrapped ==
    (research_result # None /\ synth_seen # None
        /\ synth_seen.kind \in {"text", "json_other"}) =>
        /\ "raw_analysis" \in DOMAIN research_result.analysis
        /\ Get(research_result.analysis, "confidence", Absent) = Num(PARSE_FALLBACK_CONFIDENCE)
        /\ "error" \notin DOMAIN research_result.analysis
        /\ "content_hash" \in DOMAIN research_result

Called(fn) == fn_call # None /\ fn_return # None /\ fn_call.fn = fn

RECURSIVE AsMap(_)
\* a dict content as its key-to-value map, at every nesting level
AsMap(content) ==
    IF "scalar" \in DOMAIN content THEN content
    ELSE [map |->
             [k \in {content.items[i][1] : i \in DOMAIN content.items} |->
                 AsMap((CHOOSE it \in {content.items[i] : i \in DOMAIN content.items} :
                            it[1] = k)[2])]]

\* C14: _create_content_hash is deterministic and independent of key order:
\* hashing the same content twice gives the same digest, and two dict
\* contents that are equal as key-to-value maps at every nesting level get the
\* same digest whatever their insertion order.
C14_HashIgnoresKeyOrder ==
    Called("_create_content_hash") =>
        /\ fn_return.again = fn_return.first
        /\ AsMap(fn_call.first) = AsMap(fn_call.second) =>
               fn_return.first = fn_return.second

\* C14 witness: two contents with the same two keys inserted in opposite
\* orders, one of them holding a nested dict, were given the same digest.
C14_Witness ==
    /\ Called("_create_content_hash")
    /\ Len(fn_call.first.items) = MaxKeys
    /\ Len(fn_call.second.items) = MaxKeys
    /\ fn_call.first.items[1][1] = fn_call.second.items[Len(fn_call.second.items)][1]
    /\ fn_call.first # fn_call.second
    /\ \E i \in DOMAIN fn_call.first.items : "items" \in DOMAIN fn_call.first.items[i][2]
    /\ AsMap(fn_call.first) = AsMap(fn_call.second)
    /\ fn_return.first = fn_return.second

\* the fields of a report that make up its body
ReportBody(report) ==
    [tokens_analyzed |-> report.tokens_analyzed,
     data_sources |-> Get(report, "data_sources", None),
     confidence_score |-> report.confidence_score,
     analysis |-> report.analysis]

IsFallbackReport(report) == "error" \in DOMAIN report.analysis /\ "data_sources" \notin DOMAIN report

\* C15: the content_hash of a report is the digest of its body: two reports
\* whose bodies differ in a field value have different content_hash values,
\* and two fallback reports for the same error, made at different times, have
\* the same hash.
C15_HashCoversReportBody ==
    Called("generate_daily_research") =>
        /\ ("content_hash" \in DOMAIN fn_return.first
               /\ "content_hash" \in DOMAIN fn_return.second
               /\ ReportBody(fn_return.first) # ReportBody(fn_return.second)) =>
              fn_return.first.content_hash # fn_return.second.content_hash
        /\ (IsFallbackReport(fn_return.first) /\ IsFallbackReport(fn_return.second)
               /\ fn_return.first.analysis = fn_return.second.analysis) =>
              fn_return.first.research_hash = fn_return.second.research_hash

\* The claimed confidence, read on the signals of a combined analysis.  A
\* signal is ok when its source delivered data: Twitter with status success,
\* Reddit with posts, news with articles, the price source with a positive
\* close.  Four signals are expected per token.  The richness terms are the
\* count terms of the sources that delivered data, each capped at 1.
SignalTerms(nlp) ==
    [i \in 1 .. 3 * NumTokens |->
        LET t == ((i - 1) \div 3) + 1
            k == (i - 1) % 3
            tw == nlp.social_sentiment[t].twitter
            rd == nlp.social_sentiment[t].reddit
            nw == nlp.news_sentiment[t]
        IN  IF k = 0
            THEN [ok |-> Get(tw, "status", "none") = "success",
                  term |-> Min((Get(tw, "tweet_count", 0) * Unit) \div 20, Unit)]
            ELSE IF k = 1
            THEN [ok |-> Get(rd, "post_count", 0) > 0,
                  term |-> Min((Get(rd, "post_count", 0) * Unit) \div 20, Unit)]
            ELSE [ok |-> Get(nw, "article_count", 0) > 0,
                  term |-> Min((Get(nw, "article_count", 0) * Unit) \div 10, Unit)]]

ClaimedConfidence(nlp) ==
    LET terms == SelectSeq(SignalTerms(nlp), LAMBDA s : s.ok)
        priced == Cardinality({t \in Tokens :
                                  Get(nlp.technical_analysis[t], "current_price", 0) > 0})
        base == ((Len(terms) + priced) * Unit) \div (4 * NumTokens)
        richness == SumSeq([i \in 1 .. Len(terms) |-> terms[i].term]) \div Len(terms)
    IN  IF terms = <<>> THEN base
        ELSE (7 * base + 3 * richness) \div 10

\* C16: the confidence of the combined analysis equals 0.7*base + 0.3*richness
\* (base = ok signals / expected signals, richness = average of the capped
\* volume and article-count terms), and equals base when no richness term is
\* computable.  Equality is up to one thousandth, the rounding of the model.
C16_ConfidenceIsBlend ==
    (nlp_result # None /\ ~TimedOut /\ "confidence_score" \in DOMAIN nlp_result) =>
        /\ nlp_result.confidence_score - ClaimedConfidence(nlp_result) <= 1
        /\ ClaimedConfidence(nlp_result) - nlp_result.confidence_score <= 1

Abs(x) == IF x < 0 THEN -x ELSE x

\* Twitter reports its own status; Reddit reports none and is ok with posts
TwitterOk(sig) == Get(sig, "status", "none") = "success"

RedditOk(sig) == Get(sig, "post_count", 0) > 0

\* the combined sentiment differs from the other source's sentiment by at most
\* the degraded source's confidence times its own sentiment
BoundedInfluence(overall, degraded, other) ==
    Abs(overall - other.sentiment) <= Mul(degraded.confidence, Abs(degraded.sentiment))

\* C17: in the per-token combination a source whose status is not ok moves the
\* combined sentiment by at most its own confidence times its sentiment: with
\* confidence 0 the combined sentiment is the other source's sentiment.
C17_DegradedSourceBounded ==
    \A t \in DOMAIN social_sentiments :
        LET s == social_sentiments[t]
        IN  /\ (~TwitterOk(s.twitter) /\ RedditOk(s.reddit)) =>
                   BoundedInfluence(s.overall, s.twitter, s.reddit)
            /\ (~RedditOk(s.reddit) /\ TwitterOk(s.twitter)) =>
                   BoundedInfluence(s.overall, s.reddit, s.twitter)

\* what the news provider answered to the token's own query
OwnResponse(t) == SelectSeq(news_data, LAMBDA a : a.query = t)

\* C18: the values reported for a token do not depend on the other tokens of
\* the batch: they are the values the token's own upstream data give.  Stated
\* once every source has been processed, for runs in which no news entry is
\* malformed: the token's news value is the analysis of the answer to its own
\* query, its social value the combination of its own Twitter and Reddit
\* answers, its technical value that of its own price history.
C18_TokensIndependent ==
    (pc = "combine" /\ ~NewsFilterRaises(news_data)) =>
        \A t \in Tokens :
            /\ news_sentiment[t] = NewsEntry(t, OwnResponse(t))
            /\ social_sentiments[t] =
                   CombineSocial(
                       _analyze_twitter_sentiment(twitter_client, Get(twitter_seen, t, None)),
                       _analyze_reddit_sentiment(reddit_client, Get(reddit_seen, t, None)))
            /\ technical_analysis[t] = TechnicalEntry(price_seen[t])

\* the losses of the last RSI_PERIOD steps, whose mean is the average loss
WindowLoss(prices) ==
    SumSeq([i \in 1 .. RSI_PERIOD |-> Max(-LastDeltas(prices, RSI_PERIOD)[i], 0)])

\* C19: _calculate_rsi returns the neutral default 50 whenever the series has
\* fewer than 15 points or the average loss over the 14-step window is 0, a
\* series that only rises included.
C19_RsiNeutralWithoutLoss ==
    Called("_calculate_rsi") =>
        ((Len(fn_call.prices) < RSI_PERIOD + 1 \/ WindowLoss(fn_call.prices) = 0) =>
            fn_return.rsi = 50 * Unit)

\* C20: the Bollinger position lies in [0,1] for every price series, and is
\* 0.5 when the bands coincide or the series has fewer than 20 points.
C20_BollingerPositionBounded ==
    Called("_calculate_bollinger_bands") =>
        /\ InUnitInterval(fn_return.position)
        /\ (Len(fn_call.prices) < BB_PERIOD \/ fn_return.upper = fn_return.lower) =>
               fn_return.position = 500

\* C21: for every price series with fewer than 26 points _calculate_macd
\* returns exactly macd = 0.0, signal = 0.0 and histogram = 0.0.
C21_MacdZeroBelow26Points ==
    (Called("_calculate_macd") /\ Len(fn_call.prices) < 26) =>
        fn_return = [macd |-> 0, signal |-> 0, histogram |-> 0]

\* C21 witness: a series of 25 closes that rises at every step got the three
\* zeros.
C21_Witness ==
    /\ Called("_calculate_macd")
    /\ Len(fn_call.prices) = 25
    /\ \A i \in 2 .. 25 : fn_call.prices[i] > fn_call.prices[i - 1]
    /\ fn_return.macd = 0
    /\ fn_return.signal = 0
    /\ fn_return.histogram = 0

IndicatorFields == {"rsi", "macd", "bollinger_bands", "current_price", "volume"}

NoNaN(rec) == \A k \in DOMAIN rec : rec[k] # NaN

\* C22: _analyze_technical_indicators gives every token a complete indicator
\* set, for every price history down to zero points and when the price
\* provider raises; without a history the set is the default one (rsi 50, all
\* MACD fields 0, Bollinger position 0.5); and no not-a-number value is in the
\* rsi, macd or bollinger fields.
C22_IndicatorsAlwaysComplete ==
    Called("_analyze_technical_indicators") =>
        /\ DOMAIN fn_return = IndicatorFields
        /\ DOMAIN fn_return.macd = {"macd", "signal", "histogram"}
        /\ DOMAIN fn_return.bollinger_bands = {"upper", "middle", "lower", "position"}
        /\ fn_call.outcome.kind # "history" =>
              /\ fn_return.rsi = 50 * Unit
              /\ fn_return.macd = [macd |-> 0, signal |-> 0, histogram |-> 0]
              /\ fn_return.bollinger_bands.position = 500
        /\ fn_return.rsi # NaN
        /\ NoNaN(fn_return.macd)
        /\ NoNaN(fn_return.bollinger_bands)

\* C22 witness: a history of MaxLen equal closes, whose relative strength is
\* 0 / 0, got a complete set with the default rsi and its own close.
C22_Witness ==
    /\ Called("_analyze_technical_indicators")
    /\ fn_call.outcome.kind = "history"
    /\ Len(fn_call.outcome.prices) = MaxLen
    /\ \A i \in 1 .. MaxLen : fn_call.outcome.prices[i] = fn_call.outcome.prices[1]
    /\ RsiLast(fn_call.outcome.prices) = NaN
    /\ fn_return.rsi = 50 * Unit
    /\ fn_return.current_price = fn_call.outcome.close
    /\ DOMAIN fn_return = IndicatorFields

\* every adapter of the token returned no data: no tweets (or Twitter
\* disabled), no posts, no articles that mention it
NoDataToken(nlp, t) ==
    /\ Get(nlp.social_sentiment[t].twitter, "status", "no_data") = "no_data"
    /\ Get(nlp.social_sentiment[t].twitter, "tweet_count", 0) = 0
    /\ Get(nlp.social_sentiment[t].reddit, "post_count", 0) = 0
    /\ nlp.news_sentiment[t].article_count = 0

\* C23: when every adapter returns no data for the tokens of the batch, the
\* sentiment reported for each of them is 0.0, the confidence of the analysis
\* is <= 0.1 whether or not a price history is available, and the combined
\* analysis is produced without an error.
C23_NoDataTokenIsNeutral ==
    (nlp_result # None /\ ~TimedOut /\ \A t \in Tokens : NoDataToken(nlp_result, t)) =>
        /\ \A t \in Tokens :
              /\ nlp_result.social_sentiment[t].overall = 0
              /\ nlp_result.news_sentiment[t].sentiment = 0
        /\ "error" \notin DOMAIN nlp_result
        /\ nlp_result.confidence_score <= 100

\* the run returned a result without 'error' around a research report whose
\* analysis carries no 'error' either
AnalysisSucceeded ==
    /\ result # None
    /\ "error" \notin DOMAIN result
    /\ "error" \notin DOMAIN result.research_report.analysis

\* C24: for every command that runs one analysis, the exit status is 1 when
\* the configuration is fatal, 1 when the result carries a top-level 'error'
\* (for `analyze` exactly as for the run without arguments), and 0 when the
\* analysis succeeded.
C24_ExitCodeReflectsOutcome ==
    (pc = "exit" /\ command \in {"analyze", "default"}) =>
        /\ ~_validate_config(config) => exit_code = 1
        /\ (result # None /\ "error" \in DOMAIN result) => exit_code = 1
        /\ AnalysisSucceeded => exit_code = 0

\* C25: the `test` command validates the configuration only: no NLP processor
\* and no research engine is constructed, no analysis is run, and the command
\* reaches its verdict and ends normally for a valid and for an invalid
\* configuration.
C25_TestOnlyValidates ==
    command = "test" =>
        /\ ~nlp_processor
        /\ ~research_engine
        /\ nlp_result = None
        /\ result = None
        /\ pc = "exit" => exit_path = "normal"

\* C26: in monitor mode the batch is run again and again until interrupted: a
\* cycle whose result carries 'error' does not end the loop (with a valid
\* configuration the process ends only by interruption), every cycle after
\* the first starts after a sleep of exactly the interval of 3600 s, and the
\* first starts at once.
C26_MonitorLoopsOnInterval ==
    (command = "monitor" /\ _validate_config(config)) =>
        /\ pc = "exit" => exit_path = "interrupted"
        /\ monitoring.previous # "none" => monitoring.slept = 3600
        /\ monitoring.previous = "none" => monitoring.slept = 0
        /\ (pc = "report" /\ "error" \in DOMAIN result) => ENABLED MonitorCycle

\* C26 witness: the previous cycle's result carried 'error', the loop slept
\* one interval and the next analysis has again returned a result.
C26_Witness ==
    /\ command = "monitor"
    /\ monitoring.previous = "error"
    /\ monitoring.slept = 3600
    /\ pc = "report"
    /\ result # None
    /\ "error" \notin DOMAIN result

\* C27: the factor applied to one item's sentiment before averaging is at most
\* 1 + 10 whatever the item's engagement or score, for a tweet and likewise
\* for a Reddit post.  Stated on every item the adapters were given.
C27_ItemMultiplierCapped ==
    /\ \A t \in DOMAIN twitter_seen :
          \A i \in 1 .. Len(twitter_seen[t].tweets) :
              TwitterMultiplier(twitter_seen[t].tweets[i]) <= 11 * Unit
    /\ \A t \in DOMAIN reddit_seen :
          \A i \in 1 .. Len(PostsOf(reddit_seen[t])) :
              RedditMultiplier(PostsOf(reddit_seen[t])[i]) <= 11 * Unit

\* the NLP stage of a run that run_comprehensive_analysis started is under way
FanOutUnderWay ==
    /\ UnderDeadline
    /\ pc \in {"social", "news_fetch", "news_analyze", "technical", "combine"}

\* C28: within one batch the adapter calls are issued concurrently and awaited
\* together, under one deadline for the whole fan-out: as the calls overlap,
\* the fan-out has at no point taken longer than its longest single call, and
\* when the deadline expires it does so GLOBAL_TIMEOUT seconds after the
\* fan-out began, however many adapters were called.
C28_AdapterCallsOverlap ==
    /\ FanOutUnderWay => elapsed <= Max(SlowCall, NEWS_TIMEOUT)
    /\ (pc = "research_fetch" /\ TimedOut) => elapsed = GLOBAL_TIMEOUT

\* C29: for any search results the Reddit adapter collects at most 20 posts in
\* total over the five subreddits: post_count <= 20, and the confidence
\* min(post_count / 20, 1) is 1 only when post_count is 20.
C29_RedditCollectsAtMost20 ==
    Called("_analyze_reddit_sentiment") =>
        /\ fn_return.post_count <= 20
        /\ fn_return.confidence = Unit => fn_return.post_count = 20

\* the confidence the claim gives the report made from one synthesizer answer
ClaimedReportConfidence(outcome) ==
    IF outcome.kind = "text" THEN Num(700)
    ELSE IF outcome.kind = "api_error" THEN Num(100)
    ELSE outcome.confidence_score

ReportMatchesAnalysis(input, report) ==
    (~_prepare_analysis_context_raises(input.news)
        /\ (input.outcome.kind \in {"text", "api_error"}
               \/ (input.outcome.kind = "json_dict"
                      /\ input.outcome.confidence_score # Absent))) =>
        /\ report.confidence_score = ClaimedReportConfidence(input.outcome)
        /\ input.outcome.kind = "api_error" => report.confidence_score.value <= 300

\* C30: the confidence_score of a report of generate_daily_research equals the
\* confidence carried by the analysis it embeds: 0.7 when the synthesizer's
\* text could not be parsed, 0.1 when the synthesizer call failed, the
\* analysis's own value otherwise; so a failed synthesizer call never gives a
\* report confidence above the 0.3 of the fallback report.
C30_ReportConfidenceIsAnalysisConfidence ==
    Called("generate_daily_research") =>
        /\ ReportMatchesAnalysis(fn_call.first, fn_return.first)
        /\ ReportMatchesAnalysis(fn_call.second, fn_return.second)

====
